---- MODULE Spec2Model ----
(***************************************************************************)
(* Model of list.DefaultDelegate (src/list/defaultitem.go): the delegate   *)
(* that renders one row of a filterable list.                              *)
(*                                                                         *)
(* Text is a sequence of runes; every rune has a display width (cells).    *)
(* A styled string is kept as a record                                     *)
(*     [cells  : sequence of [ch, layers, emph],                           *)
(*      frames : sequence of style names]                                  *)
(* cells are the runes in order with the styles rendered over them         *)
(* (innermost first) and whether the FilterMatch style was inherited by    *)
(* one of them; frames are the block (non-inline) renders, each of which   *)
(* adds its padding and border once around the line.                       *)
(***************************************************************************)
EXTENDS Integers, Sequences, FiniteSets

\* ------------------------------------------------------------------ bounds
MaxLen == 2
MaxDescLen == 1
MaxWidth == 4
MaxPos == 2
MaxSpacing == 2

\* ------------------------------------------------------- program constants
\* s.NormalTitle = ...Padding(0, 0, 0, 2): top, right, bottom, left
PaddingLeft == 2
PaddingRight == 0
\* values are converted with uint(...); the model keeps a narrower word than
\* the build's 64 bits, far above every width that occurs here
UintModulus == 65536

\* the tail handed to truncate.StringWithTail, one rune of one cell
ellipsis == "~"

\* "a" stands for a rune one cell wide, "W" for a rune two cells wide
Alphabet == {"a", "W"}

RuneWidth(c) == IF c = "W" THEN 2 ELSE 1

RECURSIVE StringWidth(_)
StringWidth(s) == IF s = <<>> THEN 0 ELSE RuneWidth(Head(s)) + StringWidth(Tail(s))

Unfiltered == "Unfiltered"
Filtering == "Filtering"
FilterApplied == "FilterApplied"
FilterStates == {Unfiltered, Filtering, FilterApplied}

\* ------------------------------------------------------------------ styles
\* a lipgloss.Style as far as Render reads it: which slot of
\* DefaultItemStyles it is, whether it renders inline, whether it has
\* inherited FilterMatch
NormalTitle == [name |-> "NormalTitle", inline |-> FALSE, emph |-> FALSE]
NormalDesc == [name |-> "NormalDesc", inline |-> FALSE, emph |-> FALSE]
SelectedTitle == [name |-> "SelectedTitle", inline |-> FALSE, emph |-> FALSE]
SelectedDesc == [name |-> "SelectedDesc", inline |-> FALSE, emph |-> FALSE]
DimmedTitle == [name |-> "DimmedTitle", inline |-> FALSE, emph |-> FALSE]
DimmedDesc == [name |-> "DimmedDesc", inline |-> FALSE, emph |-> FALSE]

\* style.Inline(true)
Inline(style) == [style EXCEPT !.inline = TRUE]

\* style.Copy().Inherit(s.FilterMatch)
InheritFilterMatch(style) == [style EXCEPT !.emph = TRUE]

\* a plain Go string seen as a styled string without any style
Raw(s) ==
  [cells |-> [i \in 1..Len(s) |-> [ch |-> s[i], layers |-> <<>>, emph |-> FALSE]],
   frames |-> <<>>]

\* style.Render(str)
StyleRender(style, str) ==
  [cells |-> [i \in 1..Len(str.cells) |->
                [ch |-> str.cells[i].ch,
                 layers |-> Append(str.cells[i].layers, style.name),
                 emph |-> str.cells[i].emph \/ style.emph]],
   frames |-> IF style.inline THEN str.frames ELSE Append(str.frames, style.name)]

\* strings.Builder.WriteString on styled strings
Concat(a, b) == [cells |-> a.cells \o b.cells, frames |-> a.frames \o b.frames]

\* lipgloss.StyleRunes(str, indices, matched, unmatched): runes are grouped
\* into maximal runs of equal matchedness (indices are 0-based), each run is
\* rendered with its style and the runs are concatenated
RECURSIVE StyleRunesFrom(_, _, _, _, _, _, _)
StyleRunesFrom(i, group, out, str, indices, matched, unmatched) ==
  IF i >= Len(str) THEN out
  ELSE LET g == Append(group, str[i + 1])
           matches == i \in indices
           nextMatches == (i + 1) \in indices
       IN IF matches # nextMatches \/ i = Len(str) - 1
          THEN StyleRunesFrom(i + 1, <<>>,
                 Concat(out, StyleRender(IF matches THEN matched ELSE unmatched, Raw(g))),
                 str, indices, matched, unmatched)
          ELSE StyleRunesFrom(i + 1, g, out, str, indices, matched, unmatched)

StyleRunes(str, indices, matched, unmatched) ==
  StyleRunesFrom(0, <<>>, Raw(<<>>), str, indices, matched, unmatched)

\* -------------------------------------------------------------- truncation
\* truncate.StringWithTail(s, width, tail): the writer reserves the tail's
\* width, copies runes while the running width stays within what is left,
\* and writes the tail in place of the first rune that exceeds it
RECURSIVE TruncateFrom(_, _, _, _, _, _)
TruncateFrom(i, curWidth, buf, s, width, tail) ==
  IF i > Len(s) THEN buf
  ELSE LET cw == curWidth + RuneWidth(s[i])
       IN IF cw > width THEN buf \o tail
          ELSE TruncateFrom(i + 1, cw, Append(buf, s[i]), s, width, tail)

StringWithTail(s, width, tail) ==
  LET tw == StringWidth(tail)
  IN IF width < tw THEN tail
     ELSE TruncateFrom(1, 0, <<>>, s, width - tw, tail)

\* ------------------------------------------------------------------- items
\* an Item: kind tells whether it implements DefaultItem (Title, Description)
Unsupported == [kind |-> "Item", title |-> <<>>, desc |-> <<>>]

Texts(n) == UNION {[1..k -> Alphabet] : k \in 0..n}

Items ==
  {[kind |-> "DefaultItem", title |-> t, desc |-> d] :
     t \in Texts(MaxLen), d \in Texts(MaxDescLen)} \cup {Unsupported}

\* ------------------------------------------------------- the list's Model
\* what Render reads of the Model: width, Index(), FilterState(),
\* FilterValue() and filteredItems, kept as the sequence of the matches of
\* each filtered item (a set of 0-based rune positions)
Indexes == {0, 1}
FilterValues == {"", "q"}
MatchSets == {{}} \cup {{p} : p \in 0..MaxPos} \cup {0..MaxPos}
FilteredSeqs == UNION {[1..k -> MatchSets] : k \in 0..Cardinality(Indexes)}

Models ==
  [width : 0..MaxWidth, index : Indexes, filterState : FilterStates,
   filterValue : FilterValues, filteredItems : FilteredSeqs]

VARIABLES
  ShowDescription,  \* d.ShowDescription
  spacing,          \* d.spacing
  UpdateFunc,       \* d.UpdateFunc # nil
  RenderFunc,       \* d.RenderFunc # nil
  ShortHelpFunc,    \* d.ShortHelpFunc # nil
  FullHelpFunc,     \* d.FullHelpFunc # nil
  m,                \* the list's Model
  last,             \* the most recent call: operation, index and item given
  w,                \* what that call wrote to its io.Writer, one entry per write
  hookCalls,        \* the hooks that call invoked, with their arguments
  itemCalls,        \* the methods that call invoked on its item
  ret               \* what that call returned

delegate == <<ShowDescription, spacing, UpdateFunc, RenderFunc, ShortHelpFunc, FullHelpFunc>>
vars == <<ShowDescription, spacing, UpdateFunc, RenderFunc, ShortHelpFunc, FullHelpFunc,
          m, last, w, hookCalls, itemCalls, ret>>

NoCall == [op |-> "none", index |-> 0, item |-> Unsupported]

\* ----------------------------------------------------------------- Height
HeightIgnoringDescription == 1 + spacing

Height == IF ShowDescription THEN 2 ELSE 1

Spacing == spacing

\* ----------------------------------------------------------------- Render
\* item.(DefaultItem)
supportedAny(item) == TRUE

supported(item) == item.kind = "DefaultItem"

\* uint(m.width - s.NormalTitle.GetPaddingLeft() - s.NormalTitle.GetPaddingRight())
textwidthLeftTwice(model) == (model.width - PaddingLeft - PaddingLeft) % UintModulus

textwidth(model) == (model.width - PaddingLeft - PaddingRight) % UintModulus

\* "Prevent text from exceeding list width"
truncated(model, s) ==
  IF model.width > 0 THEN StringWithTail(s, textwidth(model), <<ellipsis>>) ELSE s

isSelected(model, index) == index = model.index

emptyFilterAnyQuery(model) == model.filterState = Filtering

emptyFilter(model) == model.filterState = Filtering /\ model.filterValue = ""

isFilteredAppliedOnly(model) == model.filterState = FilterApplied

isFiltered(model) == model.filterState = Filtering \/ model.filterState = FilterApplied

\* m.MatchesForItem(index)
MatchesForItem(model, index) ==
  IF model.filteredItems = <<>> \/ index >= Len(model.filteredItems) THEN {}
  ELSE model.filteredItems[index + 1]

matchedRunesOneBased(model, index) ==
  IF isFiltered(model) /\ index < Len(model.filteredItems)
  THEN {p + 1 : p \in MatchesForItem(model, index)} ELSE {}

matchedRunes(model, index) ==
  IF isFiltered(model) /\ index < Len(model.filteredItems)
  THEN MatchesForItem(model, index) ELSE {}

\* the title as written: truncated, highlighted and styled
styledTitle(model, index, item) ==
  LET title == truncated(model, item.title)
  IN IF emptyFilter(model) THEN StyleRender(DimmedTitle, Raw(title))
     ELSE IF isSelected(model, index) /\ model.filterState # Filtering
     THEN StyleRender(SelectedTitle,
            IF isFiltered(model)
            THEN StyleRunes(title, matchedRunes(model, index),
                            InheritFilterMatch(Inline(SelectedTitle)), Inline(SelectedTitle))
            ELSE Raw(title))
     ELSE StyleRender(NormalTitle,
            IF isFiltered(model)
            THEN StyleRunes(title, matchedRunes(model, index),
                            InheritFilterMatch(Inline(NormalTitle)), Inline(NormalTitle))
            ELSE Raw(title))

styledDescHighlighted(model, index, item) ==
  LET desc == truncated(model, item.desc)
  IN IF emptyFilter(model) THEN StyleRender(DimmedDesc, Raw(desc))
     ELSE IF isSelected(model, index) /\ model.filterState # Filtering
     THEN StyleRender(SelectedDesc,
            StyleRunes(desc, matchedRunes(model, index),
                       InheritFilterMatch(Inline(SelectedDesc)), Inline(SelectedDesc)))
     ELSE StyleRender(NormalDesc,
            StyleRunes(desc, matchedRunes(model, index),
                       InheritFilterMatch(Inline(NormalDesc)), Inline(NormalDesc)))

\* the description as styled: truncated and styled
styledDesc(model, index, item) ==
  LET desc == truncated(model, item.desc)
  IN IF emptyFilter(model) THEN StyleRender(DimmedDesc, Raw(desc))
     ELSE IF isSelected(model, index) /\ model.filterState # Filtering
     THEN StyleRender(SelectedDesc, Raw(desc))
     ELSE StyleRender(NormalDesc, Raw(desc))

LineBreak == Raw(<<"\n">>)

\* fmt.Fprintf(w, "%s\n%s", title, desc) or fmt.Fprintf(w, "%s", title):
\* the parts of the one write
writtenAlwaysBoth(showDescription, title, desc) == <<title, LineBreak, desc>>

written(showDescription, title, desc) ==
  IF showDescription THEN <<title, LineBreak, desc>> ELSE <<title>>

\* d.RenderFunc(w, m, index, item)
callRenderFuncSelection(model, index, item) ==
  [hook |-> "RenderFunc", m |-> model, index |-> model.index, item |-> item]

callRenderFunc(model, index, item) ==
  [hook |-> "RenderFunc", m |-> model, index |-> index, item |-> item]

Render(index, item) ==
  /\ last' = [op |-> "Render", index |-> index, item |-> item]
  /\ IF RenderFunc
     THEN /\ hookCalls' = <<callRenderFunc(m, index, item)>>
          /\ itemCalls' = <<>>
          /\ w' = <<>>
     ELSE IF ~supported(item)
     THEN /\ hookCalls' = <<>>
          /\ itemCalls' = <<>>
          /\ w' = <<>>
     ELSE /\ hookCalls' = <<>>
          /\ itemCalls' = <<"Title", "Description">>
          /\ w' = <<written(ShowDescription, styledTitle(m, index, item),
                            styledDesc(m, index, item))>>
  /\ ret' = "none"
  /\ UNCHANGED <<delegate, m>>

\* ------------------------------------------- rows rendered into a fresh sink
InitRender ==
  /\ ShowDescription \in BOOLEAN
  /\ spacing = 1
  /\ UpdateFunc = FALSE
  /\ RenderFunc = FALSE
  /\ ShortHelpFunc = FALSE
  /\ FullHelpFunc = FALSE
  /\ m \in Models
  /\ last = NoCall
  /\ w = <<>>
  /\ hookCalls = <<>>
  /\ itemCalls = <<>>
  /\ ret = "none"

\* one row is rendered per behaviour
RenderRow == last = NoCall /\ \E index \in Indexes, item \in Items : Render(index, item)

NextRender == RenderRow

SpecRender == InitRender /\ [][NextRender]_vars

\* ---------------------------------------------------- the other operations
\* func (d *DefaultDelegate) SetSpacing(i int)
SetSpacing(i) ==
  /\ spacing' = i
  /\ last' = [op |-> "SetSpacing", index |-> 0, item |-> Unsupported]
  /\ w' = <<>> /\ hookCalls' = <<>> /\ itemCalls' = <<>> /\ ret' = "none"
  /\ UNCHANGED <<ShowDescription, UpdateFunc, RenderFunc, ShortHelpFunc, FullHelpFunc, m>>

\* assignments to the exported fields of DefaultDelegate
SetShowDescription(b) ==
  /\ ShowDescription' = b
  /\ last' = [op |-> "set", index |-> 0, item |-> Unsupported]
  /\ w' = <<>> /\ hookCalls' = <<>> /\ itemCalls' = <<>> /\ ret' = "none"
  /\ UNCHANGED <<spacing, UpdateFunc, RenderFunc, ShortHelpFunc, FullHelpFunc, m>>

SetUpdateFunc(b) ==
  /\ UpdateFunc' = b
  /\ last' = [op |-> "set", index |-> 0, item |-> Unsupported]
  /\ w' = <<>> /\ hookCalls' = <<>> /\ itemCalls' = <<>> /\ ret' = "none"
  /\ UNCHANGED <<ShowDescription, spacing, RenderFunc, ShortHelpFunc, FullHelpFunc, m>>

SetRenderFunc(b) ==
  /\ RenderFunc' = b
  /\ last' = [op |-> "set", index |-> 0, item |-> Unsupported]
  /\ w' = <<>> /\ hookCalls' = <<>> /\ itemCalls' = <<>> /\ ret' = "none"
  /\ UNCHANGED <<ShowDescription, spacing, UpdateFunc, ShortHelpFunc, FullHelpFunc, m>>

SetShortHelpFunc(b) ==
  /\ ShortHelpFunc' = b
  /\ last' = [op |-> "set", index |-> 0, item |-> Unsupported]
  /\ w' = <<>> /\ hookCalls' = <<>> /\ itemCalls' = <<>> /\ ret' = "none"
  /\ UNCHANGED <<ShowDescription, spacing, UpdateFunc, RenderFunc, FullHelpFunc, m>>

SetFullHelpFunc(b) ==
  /\ FullHelpFunc' = b
  /\ last' = [op |-> "set", index |-> 0, item |-> Unsupported]
  /\ w' = <<>> /\ hookCalls' = <<>> /\ itemCalls' = <<>> /\ ret' = "none"
  /\ UNCHANGED <<ShowDescription, spacing, UpdateFunc, RenderFunc, ShortHelpFunc, m>>

\* the Models the list is taken through between the delegate's calls
LifeModels ==
  {model \in Models :
     /\ model.width \in {0, MaxWidth}
     /\ \/ model.filterState = Unfiltered /\ model.filterValue = "" /\ model.filteredItems = <<>>
        \/ model.filterState = Filtering /\ model.filterValue = "" /\ model.filteredItems = <<{}, {}>>
        \/ model.filterState = FilterApplied /\ model.filterValue = "q" /\ model.filteredItems = <<{0}>>}

LifeItems ==
  {Unsupported,
   [kind |-> "DefaultItem", title |-> <<"a", "W">>, desc |-> <<"a">>]}

\* d.UpdateFunc(msg, m): the hook is handed the Model by pointer and may
\* change it (here: move the selection); it returns a command or nil
Update ==
  /\ last' = [op |-> "Update", index |-> 0, item |-> Unsupported]
  /\ IF ~UpdateFunc
     THEN /\ ret' = "nil"
          /\ hookCalls' = <<>>
          /\ m' = m
     ELSE /\ ret' \in {"nil", "cmd"}
          /\ hookCalls' = <<[hook |-> "UpdateFunc", m |-> m, index |-> 0, item |-> Unsupported]>>
          /\ \E i \in Indexes : m' = [m EXCEPT !.index = i]
  /\ w' = <<>> /\ itemCalls' = <<>>
  /\ UNCHANGED delegate

ShortHelp ==
  /\ last' = [op |-> "ShortHelp", index |-> 0, item |-> Unsupported]
  /\ IF ShortHelpFunc
     THEN /\ ret' = "bindings"
          /\ hookCalls' = <<[hook |-> "ShortHelpFunc", m |-> m, index |-> 0, item |-> Unsupported]>>
     ELSE /\ ret' = "nil"
          /\ hookCalls' = <<>>
  /\ w' = <<>> /\ itemCalls' = <<>>
  /\ UNCHANGED <<delegate, m>>

FullHelp ==
  /\ last' = [op |-> "FullHelp", index |-> 0, item |-> Unsupported]
  /\ IF FullHelpFunc
     THEN /\ ret' = "bindings"
          /\ hookCalls' = <<[hook |-> "FullHelpFunc", m |-> m, index |-> 0, item |-> Unsupported]>>
     ELSE /\ ret' = "nil"
          /\ hookCalls' = <<>>
  /\ w' = <<>> /\ itemCalls' = <<>>
  /\ UNCHANGED <<delegate, m>>

\* the list changes between the delegate's calls (selection, filter, size)
ListChanges ==
  /\ m' \in LifeModels
  /\ last' = [op |-> "list", index |-> 0, item |-> Unsupported]
  /\ w' = <<>> /\ hookCalls' = <<>> /\ itemCalls' = <<>> /\ ret' = "none"
  /\ UNCHANGED delegate

\* NewDefaultDelegate()
Init ==
  /\ ShowDescription = TRUE
  /\ spacing = 1
  /\ UpdateFunc = FALSE
  /\ RenderFunc = FALSE
  /\ ShortHelpFunc = FALSE
  /\ FullHelpFunc = FALSE
  /\ m = [width |-> 0, index |-> 0, filterState |-> Unfiltered,
          filterValue |-> "", filteredItems |-> <<>>]
  /\ last = NoCall
  /\ w = <<>>
  /\ hookCalls = <<>>
  /\ itemCalls = <<>>
  /\ ret = "none"

RenderLife == \E index \in Indexes, item \in LifeItems : Render(index, item)

Next ==
  \/ \E i \in 0..MaxSpacing : SetSpacing(i)
  \/ \E b \in BOOLEAN : SetShowDescription(b)
  \/ \E b \in BOOLEAN : SetUpdateFunc(b)
  \/ \E b \in BOOLEAN : SetRenderFunc(b)
  \/ \E b \in BOOLEAN : SetShortHelpFunc(b)
  \/ \E b \in BOOLEAN : SetFullHelpFunc(b)
  \/ ListChanges
  \/ RenderLife
  \/ Update
  \/ ShortHelp
  \/ FullHelp

Spec == Init /\ [][Next]_vars

\* =================================================================== claims
\* vocabulary of the claims, read off the state after a call
BuiltinRendered == last.op = "Render" /\ ~RenderFunc /\ last.item.kind = "DefaultItem"

WrittenTitle == w[1][1]

WrittenDesc == w[1][3]

DescWritten == Len(w) = 1 /\ Len(w[1]) = 3

TextOf(str) == [i \in 1..Len(str.cells) |-> str.cells[i].ch]

EmphasisedIn(str) == {i \in 1..Len(str.cells) : str.cells[i].emph}

\* the match positions the list holds for the rendered row
RowMatches ==
  IF last.index < Len(m.filteredItems) THEN m.filteredItems[last.index + 1] ELSE {}

PaddingSum == PaddingLeft + PaddingRight

UsableWidth == (m.width - PaddingSum) % UintModulus

DisplayState ==
  IF m.filterState = Filtering /\ m.filterValue = "" THEN "Dimmed"
  ELSE IF last.index = m.index /\ m.filterState # Filtering THEN "Selected"
  ELSE "Normal"

TitleStyleName(state) ==
  CASE state = "Dimmed" -> "DimmedTitle"
    [] state = "Selected" -> "SelectedTitle"
    [] OTHER -> "NormalTitle"

DescStyleName(state) ==
  CASE state = "Dimmed" -> "DimmedDesc"
    [] state = "Selected" -> "SelectedDesc"
    [] OTHER -> "NormalDesc"

\* every rune of str carries the style name and no other, and the line is
\* framed by it exactly once
StyledOnlyWith(str, name) ==
  /\ str.frames = <<name>>
  /\ \A i \in 1..Len(str.cells) :
       /\ str.cells[i].layers # <<>>
       /\ \A k \in 1..Len(str.cells[i].layers) : str.cells[i].layers[k] = name

\* C1: a built-in render resolves one display state by the precedence
\* Dimmed (Filtering with an empty query), else Selected (index is the
\* selection and the mode is not Filtering), else Normal, and styles both the
\* title and the description with that state's styles.
C1_DisplayState ==
  BuiltinRendered =>
    /\ Len(w) = 1
    /\ StyledOnlyWith(WrittenTitle, TitleStyleName(DisplayState))
    /\ DescWritten => StyledOnlyWith(WrittenDesc, DescStyleName(DisplayState))

\* Dimmed wins over the selection: the selected row while the query is empty
C1_Witness ==
  /\ BuiltinRendered /\ DescWritten
  /\ m.filterState = Filtering /\ m.filterValue = "" /\ last.index = m.index
  /\ WrittenTitle.frames = <<"DimmedTitle">>
  /\ WrittenDesc.frames = <<"DimmedDesc">>
  /\ WrittenTitle.cells # <<>>

\* C2 as claimed: in Filtering mode the selected row gets no match emphasis,
\* and every other filtered row with a non-empty query and matches gets it.
C2_AsClaimed ==
  BuiltinRendered =>
    /\ (m.filterState = Filtering /\ last.index = m.index /\ RowMatches # {})
         => EmphasisedIn(WrittenTitle) = {}
    /\ (/\ m.filterState \in {Filtering, FilterApplied}
        /\ m.filterValue # ""
        /\ ~(m.filterState = Filtering /\ last.index = m.index))
         => \A p \in RowMatches : p < Len(WrittenTitle.cells) => (p + 1) \in EmphasisedIn(WrittenTitle)

\* C2 amended: match emphasis is suppressed only in the Dimmed state. In
\* every filtered render with a non-empty query the matched runes of the
\* title are emphasised, selected or not; for the selected row in Filtering
\* mode it is the Selected style that is suppressed: the emphasis is layered
\* over the Normal title style.
C2_Highlight ==
  BuiltinRendered =>
    /\ (m.filterState = Filtering /\ m.filterValue = "")
         => EmphasisedIn(WrittenTitle) = {}
    /\ (m.filterState \in {Filtering, FilterApplied} /\ m.filterValue # "")
         => \A p \in RowMatches : p < Len(WrittenTitle.cells) => (p + 1) \in EmphasisedIn(WrittenTitle)
    /\ (m.filterState = Filtering /\ m.filterValue # "" /\ last.index = m.index)
         => StyledOnlyWith(WrittenTitle, "NormalTitle")

\* the selected row, while a non-empty query is being typed, with emphasis
C2_Witness ==
  /\ BuiltinRendered
  /\ m.filterState = Filtering /\ m.filterValue # "" /\ last.index = m.index
  /\ EmphasisedIn(WrittenTitle) # {}
  /\ WrittenTitle.frames = <<"NormalTitle">>

\* the title is wider than the list
TitleTooWide == m.width > 0 /\ StringWidth(last.item.title) > m.width

EndsWithOneEllipsis(s) ==
  /\ s # <<>>
  /\ s[Len(s)] = ellipsis
  /\ Len(s) > 1 => s[Len(s) - 1] # ellipsis

\* C3 as claimed: for every positive width, a title wider than width is
\* written with display width exactly width minus the padding sum and ends
\* with exactly one ellipsis.
C3_AsClaimed ==
  (BuiltinRendered /\ TitleTooWide) =>
    /\ StringWidth(TextOf(WrittenTitle)) = m.width - PaddingSum
    /\ EndsWithOneEllipsis(TextOf(WrittenTitle))

\* C4 as claimed: a title and a description that fit within width are
\* written unchanged.
C4_AsClaimed ==
  BuiltinRendered =>
    /\ StringWidth(last.item.title) <= m.width => TextOf(WrittenTitle) = last.item.title
    /\ (DescWritten /\ StringWidth(last.item.desc) <= m.width)
         => TextOf(WrittenDesc) = last.item.desc

\* C4 amended: truncation is a no-op for a text strictly narrower than the
\* usable text width, uint(width - left padding - right padding) of the
\* normal title style, and for every text when width is not positive.
C4_NoOp ==
  BuiltinRendered =>
    /\ (m.width <= 0 \/ StringWidth(last.item.title) < UsableWidth)
         => TextOf(WrittenTitle) = last.item.title
    /\ (DescWritten /\ (m.width <= 0 \/ StringWidth(last.item.desc) < UsableWidth))
         => TextOf(WrittenDesc) = last.item.desc

\* a non-empty title and description, narrower than the usable width of a
\* list wider than the padding
C4_Witness ==
  /\ BuiltinRendered /\ DescWritten
  /\ m.width > PaddingSum
  /\ last.item.title # <<>> /\ StringWidth(last.item.title) < m.width - PaddingSum
  /\ last.item.desc # <<>> /\ StringWidth(last.item.desc) < m.width - PaddingSum
  /\ TextOf(WrittenTitle) = last.item.title

UnsupportedRendered == last.op = "Render" /\ ~RenderFunc /\ last.item.kind # "DefaultItem"

\* C5: without RenderFunc, rendering an item that is no DefaultItem writes
\* nothing, calls nothing and leaves the delegate and the list as they were;
\* the render of a supported item that follows it writes its row.
C5_UnsupportedItem ==
  /\ [](UnsupportedRendered => w = <<>> /\ hookCalls = <<>> /\ itemCalls = <<>> /\ ret = "none")
  /\ [][(last'.op = "Render" /\ ~RenderFunc' /\ last'.item.kind # "DefaultItem")
          => (w' = <<>> /\ delegate' = delegate /\ m' = m)]_vars
  /\ [][(UnsupportedRendered /\ last'.op = "Render" /\ last'.item.kind = "DefaultItem")
          => (/\ Len(w') = 1
              /\ Len(w'[1]) = IF ShowDescription THEN 3 ELSE 1
              /\ w'[1][1].frames # <<>>
              /\ delegate' = delegate /\ m' = m)]_vars

C5_Witness ==
  /\ UnsupportedRendered
  /\ w = <<>>
  /\ m.width > 0 /\ m.filterState = FilterApplied /\ ~ShowDescription

\* C6: Height is 2 exactly when ShowDescription is set and 1 otherwise,
\* whatever the spacing, the hooks and the calls made before.
C6_Height ==
  /\ Height = 2 <=> ShowDescription
  /\ Height = 1 <=> ~ShowDescription

C6_Witness ==
  /\ ~ShowDescription /\ Height = 1
  /\ spacing # 1 /\ RenderFunc /\ UpdateFunc /\ last.op = "Update"

\* C7: the description written does not depend on the match positions of
\* the row: it is the one written when the list holds any other match
\* positions for that row, and none of its runes carries the match emphasis.
C7_DescIgnoresMatches ==
  (BuiltinRendered /\ DescWritten) =>
    /\ EmphasisedIn(WrittenDesc) = {}
    /\ StyledOnlyWith(WrittenDesc, DescStyleName(DisplayState))
    /\ last.index < Len(m.filteredItems)
         => \A other \in MatchSets :
              styledDesc([m EXCEPT !.filteredItems[last.index + 1] = other],
                         last.index, last.item) = WrittenDesc

\* a filtered row with matches in range of its description
C7_Witness ==
  /\ BuiltinRendered /\ DescWritten
  /\ m.filterState = FilterApplied /\ m.filterValue # ""
  /\ 0 \in RowMatches
  /\ WrittenDesc.cells # <<>>
  /\ EmphasisedIn(WrittenTitle) # {}

TitleStyles == {"NormalTitle", "SelectedTitle", "DimmedTitle"}

DescStyles == {"NormalDesc", "SelectedDesc", "DimmedDesc"}

\* the parts of the one write: title, line break and description, or the
\* title alone
LayoutWritten ==
  /\ Len(w) = 1
  /\ WrittenTitle.frames # <<>> /\ WrittenTitle.frames[1] \in TitleStyles
  /\ IF ShowDescription
     THEN /\ Len(w[1]) = 3
          /\ w[1][2] = LineBreak
          /\ WrittenDesc.frames # <<>> /\ WrittenDesc.frames[1] \in DescStyles
     ELSE Len(w[1]) = 1

\* C8 as claimed: the layout above, and in the single-line layout the
\* description is never computed.
C8_AsClaimed ==
  BuiltinRendered =>
    /\ LayoutWritten
    /\ ~ShowDescription => \A i \in 1..Len(itemCalls) : itemCalls[i] # "Description"

\* C8 amended: the layout above; in the single-line layout the description
\* is not written, but it is still computed: Render calls Description() on
\* the item in both layouts.
C8_Layout ==
  BuiltinRendered =>
    /\ LayoutWritten
    /\ itemCalls = <<"Title", "Description">>

C8_Witness ==
  /\ BuiltinRendered
  /\ ~ShowDescription
  /\ Len(w) = 1 /\ Len(w[1]) = 1
  /\ last.item.desc # <<>>

\* highlighting runs: a filtered render that is not Dimmed
HighlightRuns ==
  /\ BuiltinRendered
  /\ m.filterState \in {Filtering, FilterApplied}
  /\ ~(m.filterState = Filtering /\ m.filterValue = "")

InRange(n) == {p \in RowMatches : p < n}

\* C9: where highlighting runs, a match position at or beyond the length of
\* the truncated title is dropped: exactly the in-range positions of the
\* match set are emphasised, and the title written is the one written when
\* the list holds the in-range positions only.
C9_OutOfRangeDropped ==
  HighlightRuns =>
    LET n == Len(WrittenTitle.cells)
    IN /\ EmphasisedIn(WrittenTitle) = {p + 1 : p \in InRange(n)}
       /\ last.index < Len(m.filteredItems)
            => WrittenTitle =
                 styledTitle([m EXCEPT !.filteredItems[last.index + 1] = InRange(n)],
                             last.index, last.item)

\* a truncated title with a match in range and one beyond its end
C9_Witness ==
  /\ HighlightRuns
  /\ Len(WrittenTitle.cells) < Len(last.item.title)
  /\ \E p \in RowMatches : p >= Len(WrittenTitle.cells)
  /\ EmphasisedIn(WrittenTitle) # {}

\* C10: Render invokes RenderFunc once, with the Model, index and item it
\* was given, when it is set, and then writes nothing itself; it invokes no
\* hook when it is unset. UpdateFunc is invoked by Update only, and Update
\* returns nil when UpdateFunc is unset.
C10_Hooks ==
  /\ last.op = "Render" =>
       IF RenderFunc
       THEN /\ hookCalls = <<[hook |-> "RenderFunc", m |-> m,
                              index |-> last.index, item |-> last.item]>>
            /\ w = <<>> /\ itemCalls = <<>>
       ELSE hookCalls = <<>>
  /\ \A i \in 1..Len(hookCalls) : hookCalls[i].hook = "UpdateFunc" => last.op = "Update"
  /\ last.op = "Update" =>
       IF UpdateFunc
       THEN Len(hookCalls) = 1 /\ hookCalls[1].hook = "UpdateFunc"
       ELSE ret = "nil" /\ hookCalls = <<>>

\* the override replaces the render of an unsupported row that is not the
\* selection, while UpdateFunc is set too
C10_Witness ==
  /\ last.op = "Render" /\ RenderFunc /\ UpdateFunc
  /\ last.index # m.index
  /\ last.item.kind # "DefaultItem"
  /\ Len(hookCalls) = 1

====
